---- MODULE Spec2Model ----
(***************************************************************************)
(* The activity lifecycle service of rtw (src/src/service.rs): a Service   *)
(* over a current-activity slot and a finished-activity store.             *)
(*                                                                         *)
(* Option<T> is a sequence of length 0 (None) or 1 (Some).                 *)
(* anyhow::Result<T> is a record [ok, err, val]; val is always a sequence  *)
(* (an Option, a Vec, or a one-element sequence for a plain value).        *)
(***************************************************************************)
EXTENDS Integers, Sequences, FiniteSets, TLC

\* ---------------------------------------------------------------- bounds
\* Instants are 0..MaxTime.
MaxTime == 1
\* The store assigns at most MaxIds identifiers (0..MaxIds-1).
MaxIds == 2

Times == 0..MaxTime

\* ----------------------------------------------------------- data model
\* type Tag = String
Tag == {"a", "b"}
\* type Tags = Vec<Tag>; the tag sets the callers use here
Tags == {<<"a">>, <<"b">>}
\* type ActivityId = usize
ActivityId == 0..MaxIds

None == <<>>
Some(x) == <<x>>

StorageFailure == "StorageFailure"
InvalidInterval == "InvalidInterval"

Ok(v) == [ok |-> TRUE, err |-> "", val |-> v]
Err(e) == [ok |-> FALSE, err |-> e, val |-> <<>>]

\* OngoingActivity::new(start_time, tags)
OngoingActivity_new(start_time, tags) == [start_time |-> start_time, tags |-> tags]

\* OngoingActivity::into_activity(self, end_time) -> Result<Activity>:
\* fails when end_time < start_time, never swaps or clamps.
into_activity(ongoing, end_time) ==
    IF ongoing.start_time <= end_time
    THEN Ok(<<[start_time |-> ongoing.start_time,
               end_time |-> end_time,
               tags |-> ongoing.tags]>>)
    ELSE Err(InvalidInterval)

\* ------------------------------------------------- storage capabilities
\* A storage call fails when the environment makes it fail: `fail` names
\* the storage call that fails during the service call ("none": no failure).
NoFail == "none"

\* CurrentActivityRepository::get_current_activity
current_get(current, fail) ==
    IF fail = "get_current_activity" THEN Err(StorageFailure) ELSE Ok(current)

\* CurrentActivityRepository::set_current_activity
current_set(current, activity, fail) ==
    IF fail = "set_current_activity"
    THEN [current |-> current, res |-> Err(StorageFailure)]
    ELSE [current |-> Some(activity), res |-> Ok(<<>>)]

\* CurrentActivityRepository::reset_current_activity
current_reset(current, fail) ==
    IF fail = "reset_current_activity"
    THEN [current |-> current, res |-> Err(StorageFailure)]
    ELSE [current |-> None, res |-> Ok(<<>>)]

\* FinishedActivityRepository::write_activity: appends under a fresh id
finished_write(store, activity, fail) ==
    IF fail = "write_activity"
    THEN [store |-> store, res |-> Err(StorageFailure)]
    ELSE [store |-> [entries |-> Append(store.entries,
                                        [id |-> store.nextId, activity |-> activity]),
                     nextId |-> store.nextId + 1],
          res |-> Ok(<<store.nextId>>)]

\* The caller's predicate over (ActivityId, Activity): the range test on
\* start_time the summary uses, range_start <= start_time <= range_end.
Predicates == [lo : Times, hi : Times]
Holds(p, entry) ==
    p.lo <= entry.activity.start_time /\ entry.activity.start_time <= p.hi

RECURSIVE FilterSeq(_, _)
FilterSeq(entries, p) ==
    IF entries = <<>> THEN <<>>
    ELSE IF Holds(p, Head(entries))
         THEN <<Head(entries)>> \o FilterSeq(Tail(entries), p)
         ELSE FilterSeq(Tail(entries), p)

\* FinishedActivityRepository::filter_activities
finished_filter(store, p, fail) ==
    IF fail = "filter_activities" THEN Err(StorageFailure)
    ELSE Ok(FilterSeq(store.entries, p))

RECURSIVE RemoveId(_, _)
RemoveId(entries, id) ==
    IF entries = <<>> THEN <<>>
    ELSE IF Head(entries).id = id
         THEN Tail(entries)
         ELSE <<Head(entries)>> \o RemoveId(Tail(entries), id)

RECURSIVE FindId(_, _)
FindId(entries, id) ==
    IF entries = <<>> THEN None
    ELSE IF Head(entries).id = id
         THEN Some(Head(entries).activity)
         ELSE FindId(Tail(entries), id)

\* FinishedActivityRepository::delete_activity
finished_delete(store, id, fail) ==
    IF fail = "delete_activity"
    THEN [store |-> store, res |-> Err(StorageFailure)]
    ELSE [store |-> [store EXCEPT !.entries = RemoveId(store.entries, id)],
          res |-> Ok(FindId(store.entries, id))]

\* ------------------------------------------------------------- Service
\* struct Service { finished: F, current: C }; a service state `st` is
\* [current, finished].  Every operation returns [st, res]: the state it
\* leaves and the Result it returns.

\* get_current_activity taking the activity out of the slot
get_current_activity_take(st, fail) ==
    LET c == current_get(st.current, fail) IN
    IF ~c.ok THEN [st |-> st, res |-> c]
    ELSE [st |-> [st EXCEPT !.current = None], res |-> c]

\* Service::get_current_activity
get_current_activity(st, fail) ==
    [st |-> st, res |-> current_get(st.current, fail)]

\* stop_current_activity without the slot reset of line 49
stop_current_activity_noreset(st, time, fail) ==
    LET current == current_get(st.current, fail) IN
    IF ~current.ok THEN [st |-> st, res |-> Err(current.err)]
    ELSE IF current.val = None THEN [st |-> st, res |-> Ok(None)]
    ELSE
      LET converted == into_activity(current.val[1], time) IN
      IF ~converted.ok THEN [st |-> st, res |-> Err(converted.err)]
      ELSE
        LET w == finished_write(st.finished, converted.val[1], fail) IN
        IF ~w.res.ok THEN [st |-> st, res |-> Err(w.res.err)]
        ELSE [st |-> [st EXCEPT !.finished = w.store], res |-> Ok(converted.val)]

\* stop_current_activity treating an empty slot as an error
stop_current_activity_idle_err(st, time, fail) ==
    LET current == current_get(st.current, fail) IN
    IF ~current.ok THEN [st |-> st, res |-> Err(current.err)]
    ELSE IF current.val = None THEN [st |-> st, res |-> Err("NoCurrentActivity")]
    ELSE
      LET converted == into_activity(current.val[1], time) IN
      IF ~converted.ok THEN [st |-> st, res |-> Err(converted.err)]
      ELSE
        LET w == finished_write(st.finished, converted.val[1], fail) IN
        IF ~w.res.ok THEN [st |-> st, res |-> Err(w.res.err)]
        ELSE
          LET r == current_reset(st.current, fail)
              st2 == [current |-> r.current, finished |-> w.store]
          IN
          IF ~r.res.ok THEN [st |-> st2, res |-> Err(r.res.err)]
          ELSE [st |-> st2, res |-> Ok(converted.val)]

\* stop_current_activity clamping the end of the interval to its start
\* instead of propagating the conversion error
stop_current_activity_clamp(st, time, fail) ==
    LET current == current_get(st.current, fail) IN
    IF ~current.ok THEN [st |-> st, res |-> Err(current.err)]
    ELSE IF current.val = None THEN [st |-> st, res |-> Ok(None)]
    ELSE
      LET o == current.val[1]
          end == IF time < o.start_time THEN o.start_time ELSE time
          converted == into_activity(o, end)
          w == finished_write(st.finished, converted.val[1], fail)
      IN
      IF ~w.res.ok THEN [st |-> st, res |-> Err(w.res.err)]
      ELSE
        LET r == current_reset(st.current, fail)
            st2 == [current |-> r.current, finished |-> w.store]
        IN
        IF ~r.res.ok THEN [st |-> st2, res |-> Err(r.res.err)]
        ELSE [st |-> st2, res |-> Ok(converted.val)]

\* stop_current_activity building the Activity without the conversion's check
stop_current_activity_unchecked(st, time, fail) ==
    LET current == current_get(st.current, fail) IN
    IF ~current.ok THEN [st |-> st, res |-> Err(current.err)]
    ELSE IF current.val = None THEN [st |-> st, res |-> Ok(None)]
    ELSE
      LET o == current.val[1]
          activity == [start_time |-> o.start_time, end_time |-> time, tags |-> o.tags]
          w == finished_write(st.finished, activity, fail)
      IN
      IF ~w.res.ok THEN [st |-> st, res |-> Err(w.res.err)]
      ELSE
        LET r == current_reset(st.current, fail)
            st2 == [current |-> r.current, finished |-> w.store]
        IN
        IF ~r.res.ok THEN [st |-> st2, res |-> Err(r.res.err)]
        ELSE [st |-> st2, res |-> Ok(Some(activity))]

\* stop_current_activity clearing the slot before it writes the record
stop_current_activity_clear_first(st, time, fail) ==
    LET current == current_get(st.current, fail) IN
    IF ~current.ok THEN [st |-> st, res |-> Err(current.err)]
    ELSE IF current.val = None THEN [st |-> st, res |-> Ok(None)]
    ELSE
      LET converted == into_activity(current.val[1], time) IN
      IF ~converted.ok THEN [st |-> st, res |-> Err(converted.err)]
      ELSE
        LET r == current_reset(st.current, fail)
            st1 == [st EXCEPT !.current = r.current]
        IN
        IF ~r.res.ok THEN [st |-> st1, res |-> Err(r.res.err)]
        ELSE
          LET w == finished_write(st1.finished, converted.val[1], fail) IN
          IF ~w.res.ok THEN [st |-> st1, res |-> Err(w.res.err)]
          ELSE [st |-> [st1 EXCEPT !.finished = w.store], res |-> Ok(converted.val)]

\* stop_current_activity returning the interval as it stood at its start
\* instead of the one it wrote
stop_current_activity_stale(st, time, fail) ==
    LET current == current_get(st.current, fail) IN
    IF ~current.ok THEN [st |-> st, res |-> Err(current.err)]
    ELSE IF current.val = None THEN [st |-> st, res |-> Ok(None)]
    ELSE
      LET o == current.val[1]
          converted == into_activity(o, time)
      IN
      IF ~converted.ok THEN [st |-> st, res |-> Err(converted.err)]
      ELSE
        LET w == finished_write(st.finished, converted.val[1], fail) IN
        IF ~w.res.ok THEN [st |-> st, res |-> Err(w.res.err)]
        ELSE
          LET r == current_reset(st.current, fail)
              st2 == [current |-> r.current, finished |-> w.store]
          IN
          IF ~r.res.ok THEN [st |-> st2, res |-> Err(r.res.err)]
          ELSE [st |-> st2, res |-> into_activity(o, o.start_time)]

\* Service::stop_current_activity
stop_current_activity(st, time, fail) ==
    LET current == current_get(st.current, fail) IN
    IF ~current.ok THEN [st |-> st, res |-> Err(current.err)]
    ELSE IF current.val = None THEN [st |-> st, res |-> Ok(None)]
    ELSE
      LET current_activity == current.val[1]
          converted == into_activity(current_activity, time)
      IN
      IF ~converted.ok THEN [st |-> st, res |-> Err(converted.err)]
      ELSE
        LET w == finished_write(st.finished, converted.val[1], fail)
            st1 == [st EXCEPT !.finished = w.store]
        IN
        IF ~w.res.ok THEN [st |-> st1, res |-> Err(w.res.err)]
        ELSE
          LET r == current_reset(st1.current, fail)
              st2 == [st1 EXCEPT !.current = r.current]
          IN
          IF ~r.res.ok THEN [st |-> st2, res |-> Err(r.res.err)]
          ELSE
            LET again == into_activity(current_activity, time) IN
            IF ~again.ok THEN [st |-> st2, res |-> Err(again.err)]
            ELSE [st |-> st2, res |-> Ok(Some(again.val[1]))]

\* start_activity without the implicit stop of line 36
start_activity_nostop(st, activity, fail) ==
    LET started == OngoingActivity_new(activity.start_time, activity.tags)
        s == current_set(st.current, started, fail)
    IN
    IF ~s.res.ok THEN [st |-> st, res |-> Err(s.res.err)]
    ELSE [st |-> [st EXCEPT !.current = s.current], res |-> Ok(<<started>>)]

\* start_activity rejecting the call while an activity is ongoing
start_activity_reject(st, activity, fail) ==
    LET cur == current_get(st.current, fail) IN
    IF ~cur.ok THEN [st |-> st, res |-> Err(cur.err)]
    ELSE IF cur.val # None THEN [st |-> st, res |-> Err("AlreadyActive")]
    ELSE
      LET started == OngoingActivity_new(activity.start_time, activity.tags)
          s == current_set(st.current, started, fail)
      IN
      IF ~s.res.ok THEN [st |-> st, res |-> Err(s.res.err)]
      ELSE [st |-> [st EXCEPT !.current = s.current], res |-> Ok(<<started>>)]

\* start_activity dropping the result of the implicit stop (no `?`)
start_activity_ignore_stop(st, activity, fail) ==
    LET stopped == stop_current_activity(st, activity.start_time, fail)
        started == OngoingActivity_new(activity.start_time, activity.tags)
        s == current_set(stopped.st.current, started, fail)
        st1 == [stopped.st EXCEPT !.current = s.current]
    IN
    IF ~s.res.ok THEN [st |-> st1, res |-> Err(s.res.err)]
    ELSE [st |-> st1, res |-> Ok(<<started>>)]

\* Service::start_activity
start_activity(st, activity, fail) ==
    LET stopped == stop_current_activity(st, activity.start_time, fail) IN
    IF ~stopped.res.ok THEN [st |-> stopped.st, res |-> Err(stopped.res.err)]
    ELSE
      LET started == OngoingActivity_new(activity.start_time, activity.tags)
          s == current_set(stopped.st.current, started, fail)
          st1 == [stopped.st EXCEPT !.current = s.current]
      IN
      IF ~s.res.ok THEN [st |-> st1, res |-> Err(s.res.err)]
      ELSE [st |-> st1, res |-> Ok(<<started>>)]

\* filter_activities dropping the caller's predicate
filter_activities_all(st, p, fail) ==
    [st |-> st,
     res |-> IF fail = "filter_activities" THEN Err(StorageFailure)
             ELSE Ok(st.finished.entries)]

\* Service::filter_activities
filter_activities(st, p, fail) ==
    [st |-> st, res |-> finished_filter(st.finished, p, fail)]

\* delete_activity returning the entry without keeping the store's removal
delete_activity_keep(st, id, fail) ==
    [st |-> st, res |-> finished_delete(st.finished, id, fail).res]

\* Service::delete_activity
delete_activity(st, id, fail) ==
    LET d == finished_delete(st.finished, id, fail) IN
    [st |-> [st EXCEPT !.finished = d.store], res |-> d.res]

\* track_activity closing the tracking session as stop does
track_activity_reset(st, activity, fail) ==
    LET w == finished_write(st.finished, activity, fail) IN
    IF ~w.res.ok THEN [st |-> st, res |-> Err(w.res.err)]
    ELSE [st |-> [current |-> None, finished |-> w.store], res |-> Ok(<<activity>>)]

\* track_activity writing over the last record of the store
track_activity_overwrite(st, activity, fail) ==
    LET kept == IF st.finished.entries = <<>> THEN <<>>
                ELSE SubSeq(st.finished.entries, 1, Len(st.finished.entries) - 1)
        w == finished_write([st.finished EXCEPT !.entries = kept], activity, fail)
    IN
    IF ~w.res.ok THEN [st |-> st, res |-> Err(w.res.err)]
    ELSE [st |-> [st EXCEPT !.finished = w.store], res |-> Ok(<<activity>>)]

\* Service::track_activity
track_activity(st, activity, fail) ==
    LET w == finished_write(st.finished, activity, fail) IN
    IF ~w.res.ok THEN [st |-> [st EXCEPT !.finished = w.store], res |-> Err(w.res.err)]
    ELSE [st |-> [st EXCEPT !.finished = w.store], res |-> Ok(<<activity>>)]

\* --------------------------------------------------------- state machine
VARIABLES
    current,    \* Service.current: the slot, None or Some(OngoingActivity)
    finished,   \* Service.finished: [entries, nextId], entries in store order
    call,       \* the last service call: its name, arguments and failing storage call
    ret,        \* the Result the last service call returned
    pre         \* the service state the last call started from

vars == <<current, finished, call, ret, pre>>

State == [current |-> current, finished |-> finished]

\* The empty slot and the empty store a first run finds
Init ==
    /\ current = None
    /\ finished = [entries |-> <<>>, nextId |-> 0]
    /\ call = [op |-> "new"]
    /\ ret = Ok(<<>>)
    /\ pre = [current |-> None, finished |-> [entries |-> <<>>, nextId |-> 0]]

\* Service::new(finished, current): a Service built over the slot and the
\* store as the last one left them.  call, ret and pre record what the
\* caller of one service call observes; no operation reads them, so taking
\* one call per Service loses no state of the slot and the store.
New ==
    /\ call.op # "new"
    /\ call' = [op |-> "new"]
    /\ ret' = Ok(<<>>)
    /\ pre' = State
    /\ UNCHANGED <<current, finished>>

\* A Service that has not been called yet
Fresh == call.op = "new"

\* A call returns: the service is left in out.st, the caller holds out.res.
\* The store hands out at most MaxIds identifiers.
Return(c, out) ==
    /\ out.st.finished.nextId <= MaxIds
    /\ current' = out.st.current
    /\ finished' = out.st.finished
    /\ call' = c
    /\ ret' = out.res
    /\ pre' = State

GetCurrentActivity ==
    /\ Fresh
    /\ \E fail \in {NoFail, "get_current_activity"} :
           Return([op |-> "get_current_activity", fail |-> fail],
                  get_current_activity(State, fail))

StartActivity ==
    /\ Fresh
    /\ \E t \in Times, tags \in Tags,
          fail \in {NoFail, "get_current_activity", "write_activity",
                    "reset_current_activity", "set_current_activity"} :
           Return([op |-> "start_activity", start_time |-> t, tags |-> tags, fail |-> fail],
                  start_activity(State, OngoingActivity_new(t, tags), fail))

StopCurrentActivity ==
    /\ Fresh
    /\ \E time \in Times,
          fail \in {NoFail, "get_current_activity", "write_activity",
                    "reset_current_activity"} :
           Return([op |-> "stop_current_activity", time |-> time, fail |-> fail],
                  stop_current_activity(State, time, fail))

FilterActivities ==
    /\ Fresh
    /\ \E p \in Predicates, fail \in {NoFail, "filter_activities"} :
           Return([op |-> "filter_activities", p |-> p, fail |-> fail],
                  filter_activities(State, p, fail))

DeleteActivity ==
    /\ Fresh
    /\ \E id \in ActivityId, fail \in {NoFail, "delete_activity"} :
           Return([op |-> "delete_activity", id |-> id, fail |-> fail],
                  delete_activity(State, id, fail))

\* The caller builds the Activity (a closed interval cannot be built with
\* end_time < start_time) and hands it to track_activity.
TrackActivity ==
    /\ Fresh
    /\ \E s \in Times, e \in Times, tags \in Tags, fail \in {NoFail, "write_activity"} :
           LET built == into_activity(OngoingActivity_new(s, tags), e)
               c == [op |-> "track_activity", start_time |-> s, end_time |-> e,
                     tags |-> tags, fail |-> fail]
           IN
           IF ~built.ok THEN Return(c, [st |-> State, res |-> Err(built.err)])
           ELSE Return(c, track_activity(State, built.val[1], fail))

Next ==
    \/ New
    \/ GetCurrentActivity
    \/ StartActivity
    \/ StopCurrentActivity
    \/ FilterActivities
    \/ DeleteActivity
    \/ TrackActivity

Spec == Init /\ [][Next]_vars

\* ------------------------------------------------------------ properties
\* What the caller of the last service call can tell.
Called(op) == call.op = op
NoStorageFailure == call.fail = NoFail
Idle(st) == st.current = None
Active(st) == st.current # None

Activity(start_time, end_time, tags) ==
    [start_time |-> start_time, end_time |-> end_time, tags |-> tags]

Ids(entries) == {entries[i].id : i \in 1..Len(entries)}

\* `after` is `before` plus exactly one record, `activity`, under a new id
AddsExactly(before, after, activity) ==
    /\ Len(after) = Len(before) + 1
    /\ SubSeq(after, 1, Len(before)) = before
    /\ after[Len(after)].activity = activity
    /\ after[Len(after)].id \notin Ids(before)

\* C1: from an idle state, start_activity({t0, tags}) without a storage
\* failure opens {t0, tags} and adds no record, and a stop_current_activity(t1)
\* that follows it with t1 >= t0 (t1 = t0 included) and no storage failure
\* adds exactly the record {t0, t1, tags}, returns it and empties the slot.
C1_StopAfterStartRoundTrip ==
    (Called("start_activity") /\ NoStorageFailure /\ Idle(pre)) =>
        /\ ret.ok
        /\ current = Some(OngoingActivity_new(call.start_time, call.tags))
        /\ finished = pre.finished
        /\ \A t1 \in Times : t1 >= call.start_time =>
              LET out == stop_current_activity(State, t1, NoFail)
                  rec == Activity(call.start_time, t1, call.tags)
              IN
              /\ out.res = Ok(Some(rec))
              /\ AddsExactly(pre.finished.entries, out.st.finished.entries, rec)
              /\ out.st.current = None
              /\ get_current_activity(out.st, NoFail).res = Ok(None)

\* The stop of a round trip has returned: the first record of the store is
\* the one it wrote, with t1 = t0.
C1_Witness ==
    /\ Called("stop_current_activity") /\ NoStorageFailure
    /\ pre.finished.entries = <<>>
    /\ Active(pre)
    /\ call.time = pre.current[1].start_time
    /\ ret = Ok(Some(Activity(call.time, call.time, pre.current[1].tags)))
    /\ Len(finished.entries) = 1
    /\ finished.entries[1].activity = ret.val[1]
    /\ current = None

\* C2: the slot never holds more than one ongoing activity, and a
\* start_activity({t1, tagsB}) issued while {t0, tagsA} is ongoing, with
\* t1 >= t0 and no storage failure, adds exactly the record {t0, t1, tagsA}
\* and leaves {t1, tagsB} in the slot.
C2_SingleCurrentAutoClose ==
    /\ Len(current) <= 1
    /\ (Called("start_activity") /\ NoStorageFailure /\ Active(pre)
            /\ call.start_time >= pre.current[1].start_time) =>
          LET prior == pre.current[1]
              closed == Activity(prior.start_time, call.start_time, prior.tags)
          IN
          /\ ret.ok
          /\ AddsExactly(pre.finished.entries, finished.entries, closed)
          /\ finished.entries[Len(finished.entries)].activity.end_time = call.start_time
          /\ current = Some(OngoingActivity_new(call.start_time, call.tags))

\* A second start with other tags and a later start time has returned.
C2_Witness ==
    /\ Called("start_activity") /\ NoStorageFailure /\ Active(pre)
    /\ call.start_time > pre.current[1].start_time
    /\ call.tags # pre.current[1].tags
    /\ ret.ok
    /\ Len(finished.entries) = Len(pre.finished.entries) + 1
    /\ current = Some(OngoingActivity_new(call.start_time, call.tags))

\* C3: a stop_current_activity on an empty slot leaves the slot empty and
\* the store as it was, whatever the time; it returns a successful none
\* (the slot read answering), and so does every repetition of it.
C3_NoCurrentIdempotence ==
    (Called("stop_current_activity") /\ Idle(pre)) =>
        /\ current = None
        /\ finished = pre.finished
        /\ call.fail # "get_current_activity" => ret = Ok(None)
        /\ \A time \in Times :
              stop_current_activity(State, time, NoFail) = [st |-> State, res |-> Ok(None)]

\* A stop on an empty slot has returned none, the store holding a record.
C3_Witness ==
    /\ Called("stop_current_activity") /\ Idle(pre)
    /\ ret = Ok(None)
    /\ current = None
    /\ finished.entries # <<>>

\* C4: a stop_current_activity(time) with time before the start of the
\* ongoing activity fails, with the invalid-interval error (the slot read
\* answering), writes no record and leaves the ongoing activity in the slot.
C4_IntervalValidityOnStop ==
    (Called("stop_current_activity") /\ Active(pre)
        /\ call.time < pre.current[1].start_time) =>
        /\ ~ret.ok
        /\ call.fail # "get_current_activity" => ret = Err(InvalidInterval)
        /\ finished = pre.finished
        /\ current = pre.current

\* A stop before the start of the ongoing activity has been refused.
C4_Witness ==
    /\ Called("stop_current_activity") /\ Active(pre)
    /\ call.time < pre.current[1].start_time
    /\ ret = Err(InvalidInterval)
    /\ current = pre.current

\* C5: a stop_current_activity on an ongoing activity, any one of its
\* storage calls possibly failing, either succeeds with the record written
\* and the slot cleared, or fails with the store and the slot unchanged.
C5_StopNeverPartiallyApplied ==
    (Called("stop_current_activity") /\ Active(pre)) =>
        \/ /\ ret.ok
           /\ ret.val # None
           /\ AddsExactly(pre.finished.entries, finished.entries, ret.val[1])
           /\ current = None
        \/ /\ ~ret.ok
           /\ finished = pre.finished
           /\ current = pre.current

\* C6 as stated: a start_activity issued while an activity is ongoing is
\* never rejected, whatever its start_time; absent a storage failure it
\* closes the previous interval at the new start time and opens the new one.
C6_RestartNeverRejected ==
    (Called("start_activity") /\ NoStorageFailure /\ Active(pre)) =>
        LET prior == pre.current[1] IN
        /\ ret.ok
        /\ \E end \in Times :
              AddsExactly(pre.finished.entries, finished.entries,
                          Activity(prior.start_time, end, prior.tags))
        /\ current = Some(OngoingActivity_new(call.start_time, call.tags))

\* C6 as amended: start_activity checks no ordering of its own: from an
\* idle state every start_time is accepted, and a re-start at or after the
\* ongoing activity's start_time is never rejected (absent a storage
\* failure it closes the previous interval at the new start time and the
\* slot holds the new activity); a re-start before the ongoing activity's
\* start_time is rejected with the invalid-interval error of the implicit
\* stop, and changes nothing.
C6_RestartOrdering ==
    (Called("start_activity") /\ NoStorageFailure) =>
        IF Idle(pre)
        THEN /\ ret.ok
             /\ current = Some(OngoingActivity_new(call.start_time, call.tags))
        ELSE LET prior == pre.current[1] IN
             IF call.start_time >= prior.start_time
             THEN /\ ret.ok
                  /\ AddsExactly(pre.finished.entries, finished.entries,
                                 Activity(prior.start_time, call.start_time, prior.tags))
                  /\ current = Some(OngoingActivity_new(call.start_time, call.tags))
             ELSE /\ ret = Err(InvalidInterval)
                  /\ State = pre

\* A re-start earlier than the ongoing activity's start has been rejected.
C6_Witness ==
    /\ Called("start_activity") /\ NoStorageFailure /\ Active(pre)
    /\ call.start_time < pre.current[1].start_time
    /\ ~ret.ok
    /\ current = pre.current
    /\ finished = pre.finished

\* The position of the entry with identifier id in the store
Pos(entries, id) == CHOOSE j \in 1..Len(entries) : entries[j].id = id

\* C7: absent a storage failure, filter_activities returns exactly the
\* entries of the store for which the predicate holds, each once and in
\* store order, and a successful empty sequence when none match.
C7_FilterCorrectness ==
    (Called("filter_activities") /\ NoStorageFailure) =>
        LET all == finished.entries
            got == ret.val
        IN
        /\ ret.ok
        /\ \A i \in 1..Len(got) :
              \E j \in 1..Len(all) : all[j] = got[i] /\ Holds(call.p, all[j])
        /\ \A j \in 1..Len(all) :
              Holds(call.p, all[j]) => \E i \in 1..Len(got) : got[i] = all[j]
        /\ \A i, k \in 1..Len(got) :
              i < k => Pos(all, got[i].id) < Pos(all, got[k].id)
        /\ (\A j \in 1..Len(all) : ~Holds(call.p, all[j])) => ret = Ok(<<>>)

\* A filter over two records has returned the one inside the range and
\* not the one outside it.
C7_Witness ==
    /\ Called("filter_activities") /\ NoStorageFailure
    /\ Len(finished.entries) = 2
    /\ ret.ok /\ Len(ret.val) = 1
    /\ Holds(call.p, ret.val[1])
    /\ \E j \in 1..2 : ~Holds(call.p, finished.entries[j])

\* C8: absent a storage failure, delete_activity(id) on a present id
\* returns the stored Activity and removes that entry and no other, so that
\* no filter_activities on the store returns an entry under that id, and the
\* id is not handed out again; on an absent id it returns a successful none
\* and leaves the store unchanged.
C8_DeleteCorrectness ==
    /\ \A i \in 1..Len(finished.entries) : finished.entries[i].id < finished.nextId
    /\ Cardinality(Ids(finished.entries)) = Len(finished.entries)
    /\ (Called("delete_activity") /\ NoStorageFailure) =>
          LET before == pre.finished.entries
              hit == {j \in 1..Len(before) : before[j].id = call.id}
              Others(e) == e.id # call.id
          IN
          IF hit # {}
          THEN /\ \E j \in hit : ret = Ok(Some(before[j].activity))
               /\ finished.entries = SelectSeq(before, Others)
               /\ Len(finished.entries) = Len(before) - 1
               /\ finished.nextId = pre.finished.nextId
               /\ call.id < finished.nextId
               /\ \A p \in Predicates :
                     LET later == filter_activities(State, p, NoFail).res.val IN
                     \A i \in 1..Len(later) : later[i].id # call.id
          ELSE /\ ret = Ok(None)
               /\ finished = pre.finished

\* A delete has removed one of two records and returned it.
C8_Witness ==
    /\ Called("delete_activity") /\ NoStorageFailure
    /\ Len(pre.finished.entries) = 2
    /\ ret.ok /\ ret.val # None
    /\ Len(finished.entries) = 1
    /\ finished.entries[1].id # call.id

\* C9: track_activity never changes the current slot, so
\* get_current_activity answers the same before and after it, idle or
\* active; absent a storage failure it adds exactly the record it was
\* given and returns it.
C9_TrackLeavesSlot ==
    Called("track_activity") =>
        /\ current = pre.current
        /\ get_current_activity(State, NoFail).res = get_current_activity(pre, NoFail).res
        /\ (NoStorageFailure /\ call.start_time <= call.end_time) =>
              LET a == Activity(call.start_time, call.end_time, call.tags) IN
              /\ ret = Ok(<<a>>)
              /\ AddsExactly(pre.finished.entries, finished.entries, a)

\* A record has been tracked while an activity was ongoing.
C9_Witness ==
    /\ Called("track_activity") /\ NoStorageFailure
    /\ Active(pre)
    /\ ret.ok
    /\ Len(finished.entries) = Len(pre.finished.entries) + 1
    /\ current = pre.current

\* C10: every Activity in the finished store has start_time <= end_time.
C10_StoreValidity ==
    \A i \in 1..Len(finished.entries) :
        finished.entries[i].activity.start_time <= finished.entries[i].activity.end_time

\* The store holds a record written by a stop next to an earlier one.
C10_Witness ==
    /\ Called("stop_current_activity")
    /\ ret.ok /\ ret.val # None
    /\ Len(finished.entries) = 2
    /\ finished.entries[2].activity = ret.val[1]

\* The last call was a start_activity or a stop_current_activity that
\* returned Ok.
SuccessfulStartOrStop ==
    /\ Called("start_activity") \/ Called("stop_current_activity")
    /\ ret.ok

\* C11: a successful start_activity(a) returns an OngoingActivity with
\* a.start_time and a.tags and get_current_activity returns that activity,
\* and an activity in the slot stays there over every call that is not a
\* successful start_activity or stop_current_activity.
C11_StartedStaysCurrent ==
    /\ (Called("start_activity") /\ ret.ok) =>
          /\ ret.val = <<OngoingActivity_new(call.start_time, call.tags)>>
          /\ get_current_activity(State, NoFail).res = Ok(ret.val)
    /\ (Active(pre) /\ ~SuccessfulStartOrStop) => current = pre.current

\* C12: with IDLE the empty slot and ACTIVE the occupied one, a successful
\* start from IDLE ends ACTIVE and adds no record; a successful start from
\* ACTIVE ends ACTIVE, never IDLE, and adds exactly one record; a
\* successful stop from ACTIVE ends IDLE and adds exactly one record; a
\* stop from IDLE ends IDLE and adds none.
C12_LifecycleStateMachine ==
    /\ (Called("start_activity") /\ ret.ok /\ Idle(pre)) =>
          /\ Active(State)
          /\ finished = pre.finished
    /\ (Called("start_activity") /\ ret.ok /\ Active(pre)) =>
          /\ Active(State)
          /\ Len(finished.entries) = Len(pre.finished.entries) + 1
          /\ SubSeq(finished.entries, 1, Len(pre.finished.entries)) = pre.finished.entries
    /\ (Called("stop_current_activity") /\ ret.ok /\ Active(pre)) =>
          /\ Idle(State)
          /\ Len(finished.entries) = Len(pre.finished.entries) + 1
          /\ SubSeq(finished.entries, 1, Len(pre.finished.entries)) = pre.finished.entries
    /\ (Called("stop_current_activity") /\ Idle(pre)) =>
          /\ Idle(State)
          /\ finished = pre.finished

\* A successful start from ACTIVE has returned: still ACTIVE, one record more.
C12_Witness ==
    /\ Called("start_activity") /\ ret.ok
    /\ Active(pre) /\ Active(State)
    /\ current = ret.val
    /\ Len(finished.entries) = Len(pre.finished.entries) + 1

\* C13: when the store write of a stop_current_activity fails, the slot
\* still holds the same ongoing activity and the store is unchanged, and
\* the same stop repeated without a failure then leaves exactly one record
\* for that activity in the store and the slot empty.
C13_WriteBeforeClear ==
    (Called("stop_current_activity") /\ call.fail = "write_activity"
        /\ Active(pre) /\ call.time >= pre.current[1].start_time) =>
        LET o == pre.current[1]
            rec == Activity(o.start_time, call.time, o.tags)
            retry == stop_current_activity(State, call.time, NoFail)
        IN
        /\ ret = Err(StorageFailure)
        /\ current = pre.current
        /\ finished = pre.finished
        /\ retry.res = Ok(Some(rec))
        /\ AddsExactly(pre.finished.entries, retry.st.finished.entries, rec)
        /\ retry.st.current = None

\* A stop has failed at its store write.
C13_Witness ==
    /\ Called("stop_current_activity") /\ call.fail = "write_activity"
    /\ Active(pre)
    /\ ret = Err(StorageFailure)
    /\ Active(State)
    /\ finished = pre.finished

\* C14: whenever start_activity returns an error (a storage failure at any
\* of its storage calls, or the invalid interval of the implicit stop), the
\* finished store and the current slot are the same as before the call.
C14_FailedStartNoEffect ==
    (Called("start_activity") /\ ~ret.ok) =>
        /\ finished = pre.finished
        /\ current = pre.current

\* C15: get_current_activity and filter_activities change neither the slot
\* nor the store, and delete_activity never changes the slot: none of them
\* moves the service between IDLE and ACTIVE, failing or not.
C15_ReadOnlyAndStoreOnly ==
    /\ (Called("get_current_activity") \/ Called("filter_activities")) =>
          /\ current = pre.current
          /\ finished = pre.finished
    /\ Called("get_current_activity") =>
          (call.fail = NoFail => ret = Ok(pre.current))
    /\ Called("delete_activity") => current = pre.current
    /\ (Called("get_current_activity") \/ Called("filter_activities")
            \/ Called("delete_activity")) =>
          (Idle(State) <=> Idle(pre))

\* get_current_activity has returned the ongoing activity, which is still
\* in the slot.
C15_Witness ==
    /\ Called("get_current_activity") /\ NoStorageFailure
    /\ ret.ok /\ ret.val # None
    /\ current = ret.val
    /\ finished.entries # <<>>

\* The predicate that holds of every entry
AlwaysTrue == [lo |-> 0, hi |-> MaxTime]

\* C16: start_activity, stop_current_activity and track_activity never
\* remove or alter an entry of the finished store, they only add entries,
\* and every record the store held before a call is returned by an
\* always-true filter_activities after it, unless the call was a
\* delete_activity on its id; pre being the state the last call started
\* from, this holds of every step, so a record stays until such a delete.
C16_RecordsDieOnlyByDelete ==
    /\ (Called("start_activity") \/ Called("stop_current_activity")
            \/ Called("track_activity")) =>
          /\ Len(finished.entries) >= Len(pre.finished.entries)
          /\ SubSeq(finished.entries, 1, Len(pre.finished.entries)) = pre.finished.entries
    /\ \A i \in 1..Len(pre.finished.entries) :
          \/ Called("delete_activity") /\ call.id = pre.finished.entries[i].id
          \/ LET shown == filter_activities(State, AlwaysTrue, NoFail).res.val IN
             \E j \in 1..Len(shown) : shown[j] = pre.finished.entries[i]

\* A track has added a second record after the one a start's implicit stop
\* or a stop or a track had written, which is still the first of the store.
C16_Witness ==
    /\ Called("track_activity") /\ ret.ok
    /\ Len(pre.finished.entries) = 1
    /\ Len(finished.entries) = 2
    /\ finished.entries[1] = pre.finished.entries[1]
    /\ filter_activities(State, AlwaysTrue, NoFail).res.val = finished.entries

\* C17: the Activity a successful stop_current_activity(time) returns is
\* the record it wrote to the store: start_time and tags of the activity
\* that was in the slot, end_time equal to time.
C17_ReturnedIsWritten ==
    (Called("stop_current_activity") /\ ret.ok /\ Active(pre)) =>
        LET o == pre.current[1]
            written == finished.entries[Len(finished.entries)].activity
        IN
        /\ ret.val # None
        /\ Len(finished.entries) = Len(pre.finished.entries) + 1
        /\ ret.val[1] = written
        /\ ret.val[1].start_time = o.start_time
        /\ ret.val[1].tags = o.tags
        /\ ret.val[1].end_time = call.time

\* A stop later than the start has returned the record it wrote.
C17_Witness ==
    /\ Called("stop_current_activity") /\ ret.ok /\ ret.val # None
    /\ ret.val[1].start_time < ret.val[1].end_time
    /\ finished.entries[Len(finished.entries)].activity = ret.val[1]
    /\ ret.val[1].tags = pre.current[1].tags

\* C18: a start_activity({t1, tagsB}) issued while {t0, tagsA} with t1 < t0
\* is ongoing fails before any write, with the invalid-interval error of
\* the implicit stop (the slot read answering): the slot still holds
\* {t0, tagsA}, the store is unchanged and the new activity is not started.
C18_EarlierRestartRejected ==
    (Called("start_activity") /\ Active(pre)
        /\ call.start_time < pre.current[1].start_time) =>
        /\ ~ret.ok
        /\ call.fail # "get_current_activity" => ret = Err(InvalidInterval)
        /\ current = pre.current
        /\ current # Some(OngoingActivity_new(call.start_time, call.tags))
        /\ finished = pre.finished

\* An earlier re-start with other tags has been refused with the
\* invalid-interval error, a record being in the store.
C18_Witness ==
    /\ Called("start_activity") /\ Active(pre)
    /\ call.start_time < pre.current[1].start_time
    /\ call.tags # pre.current[1].tags
    /\ ret = Err(InvalidInterval)
    /\ finished.entries # <<>>
    /\ current = pre.current

====
